---- MODULE Spec2Model ----
(***************************************************************************)
(* Model of the automaton library of lexan (src/src/dfa.rs) and of the     *)
(* pipeline its command-line front end runs (src/src/main.rs).             *)
(*                                                                         *)
(* A Transition(by, dest) is the pair <<by, dest>>.  A HashMap is a        *)
(* function, a HashSet is a set; wherever the code walks one of them the   *)
(* model takes every iteration order.  The passes are modelled one loop    *)
(* iteration per step, with `pc` the position inside the running pass.     *)
(***************************************************************************)
EXTENDS Integers, Sequences, FiniteSets, TLC

VARIABLES
    states,             \* Dfa.states: id -> accept flag
    initial,            \* Dfa.initial
    current,            \* Dfa.current
    transitions,        \* Dfa.transitions: id -> set of <<by, dest>>
    alphabet,           \* Dfa.alphabet
    pc,                 \* position: "idle", or the loop a pass is in
    caller,             \* "minimize" while minimize() runs its two passes
    state_map,          \* determinize: synthesized id -> subset it stands for
    non_deterministic,  \* determinize: entries of the for-loop not yet taken
    det_s,              \* determinize: the `s` of the entry being walked
    new_states,         \* determinize: synthesized id -> removed transitions
    turns,              \* determinize: turns of the outer loop begun so far
    unreached,          \* get_unreachable_states: `unreached`
    next,               \* get_unreachable_states: `next` (queue)
    unvisited,          \* get_dead_states: `unvisited`
    dead,               \* get_dead_states: `dead`
    path,               \* get_dead_states: `path`
    stack,              \* get_dead_states: `stack` of <<state, stacked_by>>
    hist,               \* history: the public calls that have returned
    before,             \* history: the automaton when the running call began
    before_pass,        \* history: the automaton when the running pass began
    orig,               \* history: the automaton the run started from
    first,              \* history: what the first of two runs of a pass left
    args,               \* history: the arguments of the last container call
    ret,                \* history: what the last container call returned
    allocated,          \* history: the ids new and add_state handed out, in order
    lines,              \* parse_grammar: the lines not yet read
    chars,              \* parse_grammar: the characters left of the line
    reading,            \* parse_grammar: `reading`
    temp_transition,    \* parse_grammar: `temp_transition`, "" for None
    grammar_mapper,     \* parse_grammar: `grammar_mapper`
    line_start,         \* history: the line being read and the parser before it
    files               \* history: the lines parse_grammar is called on

dfaVars == <<states, initial, current, transitions, alphabet>>
detVars == <<state_map, non_deterministic, det_s, new_states, turns>>
bfsVars == <<unreached, next>>
dfsVars == <<unvisited, dead, path, stack>>
callVars == <<args, ret, allocated>>
histVars == <<hist, before, before_pass, orig, first, callVars>>
parseVars ==
    <<lines, chars, reading, temp_transition, grammar_mapper, line_start, files>>
vars == <<dfaVars, pc, caller, detVars, bfsVars, dfsVars, histVars, parseVars>>

(***************************************************************************)
(* Bounds of the input automata and of the runs.                           *)
(***************************************************************************)
MaxStates == 3
MaxEdges == 4
MaxOps == 1
MaxTurns == 8
Sigma == {"a", "b"}

NoState == -1
EmptyMap == [x \in {} |-> {}]

\* the arguments of a call: a state id, a symbol, a destination, a flag;
\* NoState, "" and FALSE where the method has no such argument
Args(id, by, dest, flag) == [id |-> id, by |-> by, dest |-> dest, flag |-> flag]
NoArgs == Args(NoState, "", NoState, FALSE)

\* what a call returned: `kind` is "unit" for (), "id" for the usize of
\* add_state, "Ok" or "Err" for a Result, "Some" or "None" for the Option of
\* remove_state, whose pair is `accept` and, when `entry`, Some(edges)
Ret(kind, id, accept, entry, edges) ==
    [kind |-> kind, id |-> id, accept |-> accept, entry |-> entry,
     edges |-> edges]
Unit == Ret("unit", NoState, FALSE, FALSE, {})

MapPut(f, k, v) == [x \in (DOMAIN f) \cup {k} |-> IF x = k THEN v ELSE f[x]]
MapDel(f, k) == [x \in (DOMAIN f) \ {k} |-> f[x]]

Max(S) == CHOOSE x \in S : \A y \in S : y <= x

RECURSIVE Perms(_)
Perms(S) ==
    IF S = {} THEN {<<>>}
    ELSE UNION {{<<x>> \o p : p \in Perms(S \ {x})} : x \in S}

RECURSIVE SortedSeq(_)
SortedSeq(S) ==
    IF S = {} THEN <<>>
    ELSE LET m == CHOOSE x \in S : \A y \in S : x <= y
         IN <<m>> \o SortedSeq(S \ {m})

Range(q) == {q[i] : i \in 1..Len(q)}

(***************************************************************************)
(* The automaton as a value, for the operators that take `self`.           *)
(***************************************************************************)
Dfa(st, ini, cur, tr, al) ==
    [states |-> st, initial |-> ini, current |-> cur, transitions |-> tr,
     alphabet |-> al]

Self == Dfa(states, initial, current, transitions, alphabet)

\* new with the state it creates marked accepting
new_accepting == Dfa([x \in {0} |-> TRUE], 0, 0, EmptyMap, {})

\* no automaton: the value of a history variable that is not set
NoDfa == Dfa(EmptyMap, NoState, NoState, EmptyMap, {})

\* Dfa::new
new == Dfa([x \in {0} |-> FALSE], 0, 0, EmptyMap, {})

\* Dfa::add_state: the index the new state gets
add_state_index(A) ==
    (IF DOMAIN A.states = {} THEN 0 ELSE Max(DOMAIN A.states)) + 1

\* Dfa::add_state: the automaton afterwards
add_state(A, state) ==
    [A EXCEPT !.states = MapPut(A.states, add_state_index(A), state)]

\* Dfa::state_accept
state_accept(A, index) ==
    IF index \in DOMAIN A.states THEN A.states[index] ELSE FALSE

\* add_transition_to that keeps one destination per symbol: the new edge
\* takes the place of the edges of `state` on the same symbol
add_transition_to_replace(A, state, trans) ==
    [A EXCEPT
        !.alphabet = A.alphabet \cup {trans[1]},
        !.transitions =
            IF state \in DOMAIN A.transitions
            THEN [A.transitions EXCEPT
                    ![state] = {x \in @ : x[1] # trans[1]} \cup {trans}]
            ELSE MapPut(A.transitions, state, {trans})]

\* Dfa::add_transition_to
add_transition_to(A, state, trans) ==
    [A EXCEPT
        !.alphabet = A.alphabet \cup {trans[1]},
        !.transitions =
            IF state \in DOMAIN A.transitions
            THEN [A.transitions EXCEPT ![state] = @ \cup {trans}]
            ELSE MapPut(A.transitions, state, {trans})]

\* Dfa::create_transition_between
create_transition_between(A, origin, dest, by) ==
    add_transition_to(A, origin, <<by, dest>>)

\* add_transition_to for each element of a Vec of transitions; the entries
\* of a set commute, so the order of the Vec is immaterial
RECURSIVE add_transitions_to(_, _, _)
add_transitions_to(A, state, ts) ==
    IF ts = {} THEN A
    ELSE LET t == CHOOSE x \in ts : TRUE
         IN add_transitions_to(add_transition_to(A, state, t), state, ts \ {t})

\* Dfa::remove_state: the automaton afterwards
remove_state(A, index) ==
    LET retained == [s \in DOMAIN A.transitions |->
                        {x \in A.transitions[s] : x[2] # index}]
    IN IF index \in DOMAIN A.states
       THEN [A EXCEPT !.states = MapDel(A.states, index),
                      !.transitions = MapDel(retained, index)]
       ELSE [A EXCEPT !.transitions = retained]

\* `for state in v { self.remove_state(state) }` over a Vec
RECURSIVE remove_states(_, _)
remove_states(A, v) ==
    IF v = <<>> THEN A
    ELSE remove_states(remove_state(A, Head(v)), Tail(v))

\* ndt_of with the threshold of line 188 off by one
ndt_of_gt2(A, index) ==
    LET multiple(c) == {t[2] : t \in {x \in A.transitions[index] : x[1] = c}}
        keys == {c \in A.alphabet : Cardinality(multiple(c)) > 2}
    IN [c \in keys |-> multiple(c)]

\* Dfa::ndt_of
ndt_of(A, index) ==
    LET multiple(c) == {t[2] : t \in {x \in A.transitions[index] : x[1] = c}}
        keys == {c \in A.alphabet : Cardinality(multiple(c)) > 1}
    IN [c \in keys |-> multiple(c)]

\* what a call of ndt_of comes to: the map, as its (symbol, destination)
\* pairs, or the panic of `self.transitions[index]` at line 182, which is
\* evaluated once per symbol of the alphabet, when `index` has no entry
ndt_of_result(A, index) ==
    IF index \in DOMAIN A.transitions
    THEN Ret("map", index, FALSE, FALSE,
             UNION {{<<c, d>> : d \in ndt_of(A, index)[c]} :
                        c \in DOMAIN ndt_of(A, index)})
    ELSE IF A.alphabet = {}
         THEN Ret("map", index, FALSE, FALSE, {})
         ELSE Ret("panic", index, FALSE, FALSE, {})

\* non_determinist_states without the test of line 214: every state with
\* an entry in `transitions` becomes a key
non_determinist_states_all(A) == [s \in DOMAIN A.transitions |-> ndt_of(A, s)]

\* Dfa::non_determinist_states: the map `ndet`; None is the empty map
non_determinist_states(A) ==
    LET keys == {s \in DOMAIN A.transitions : DOMAIN ndt_of(A, s) # {}}
    IN [s \in keys |-> ndt_of(A, s)]

(***************************************************************************)
(* parse_grammar, src/src/main.rs: the values of its locals.  A character  *)
(* is a string of length one; a line of input is kept as the item it was   *)
(* written from, and the characters are those of its text.                 *)
(***************************************************************************)
INITIAL_STATE_CHAR == "S"

\* Option<char>::None
NoChar == ""

\* a line of a grammar file: a literal token, or a production of the
\* non-terminal `lhs` with its alternatives, as in the comment of lines
\* 21-29; "file" stands for the end of one file and the start of the next
Item(kind, text, lhs, alts) ==
    [kind |-> kind, text |-> text, lhs |-> lhs, alts |-> alts]
NoItem == Item("", <<>>, NoChar, <<>>)

\* what is remembered of the start of a line: the item, and `reading` and
\* `grammar_mapper` as they were
LineStart(item, rd, gm) == [item |-> item, reading |-> rd, grammar_mapper |-> gm]

\* parse_grammar is not running: line 50 and lines 57-58
ParseIdle ==
    /\ lines = <<>>
    /\ chars = <<>>
    /\ reading = "Normal"
    /\ temp_transition = NoChar
    /\ grammar_mapper = EmptyMap
    /\ line_start = LineStart(NoItem, "Normal", EmptyMap)
    /\ files = <<>>

(***************************************************************************)
(* The automata a run starts from: ids 0..n-1 as add_state hands them out  *)
(* after new(), any accept flags, at most MaxEdges edges between existing  *)
(* states, the alphabet add_transition_to has collected, and the cursor    *)
(* rewound to `initial`.                                                   *)
(***************************************************************************)
AllEdges(n) == (0..(n - 1)) \X Sigma \X (0..(n - 1))

TransitionsOf(E) ==
    [s \in {e[1] : e \in E} |-> {<<e[2], e[3]>> : e \in {x \in E : x[1] = s}}]

InputAutomaton(n, acc, E) ==
    Dfa(acc, 0, 0, TransitionsOf(E), {e[2] : e \in E})

Init ==
    /\ \E n \in 1..MaxStates :
        \E E \in {X \in SUBSET AllEdges(n) : Cardinality(X) <= MaxEdges} :
            \E acc \in [0..(n - 1) -> BOOLEAN] :
                LET A == InputAutomaton(n, acc, E)
                IN /\ states = A.states
                   /\ initial = A.initial
                   /\ current = A.current
                   /\ transitions = A.transitions
                   /\ alphabet = A.alphabet
                   /\ orig = A
                   /\ before = A
                   /\ before_pass = A
                   /\ allocated = SortedSeq(DOMAIN A.states)
    /\ pc = "idle"
    /\ caller = ""
    /\ state_map = EmptyMap
    /\ non_deterministic = EmptyMap
    /\ det_s = NoState
    /\ new_states = EmptyMap
    /\ turns = 0
    /\ unreached = {}
    /\ next = <<>>
    /\ unvisited = {}
    /\ dead = {}
    /\ path = <<>>
    /\ stack = <<>>
    /\ hist = <<>>
    /\ args = NoArgs
    /\ ret = Unit
    /\ first = NoDfa
    /\ ParseIdle

\* the fields of `self` after a step
SetSelf(A) ==
    /\ states' = A.states
    /\ initial' = A.initial
    /\ current' = A.current
    /\ transitions' = A.transitions
    /\ alphabet' = A.alphabet

\* a public call may begin: nothing is running and the run has calls left
MayCall == pc = "idle" /\ caller = "" /\ Len(hist) < MaxOps

\* a public call returns to the caller of the library
Return(name) ==
    /\ pc' = "idle"
    /\ caller' = ""
    /\ hist' = Append(hist, name)
    /\ UNCHANGED <<before, before_pass, orig, first, callVars, parseVars>>

(***************************************************************************)
(* Dfa::determinize                                                        *)
(***************************************************************************)
\* lines 227-228: entry, `state_map` is created empty
determinize_enter ==
    /\ state_map' = EmptyMap
    /\ pc' = "det_while"
    /\ before' = Self
    /\ before_pass' = Self
    /\ turns' = 0
    /\ UNCHANGED <<dfaVars, caller, non_deterministic, det_s, new_states,
                   bfsVars, dfsVars, hist, orig, first, callVars, parseVars>>

\* line 230: the test of the outer `while let`, and line 232
DetWhile ==
    /\ pc = "det_while"
    /\ LET nd == non_determinist_states(Self)
       IN IF DOMAIN nd = {}
          THEN /\ Return("determinize")
               /\ state_map' = EmptyMap
               /\ det_s' = NoState
               /\ UNCHANGED <<non_deterministic, new_states, turns>>
          ELSE /\ turns < MaxTurns
               /\ turns' = turns + 1
               /\ non_deterministic' = nd
               /\ new_states' = EmptyMap
               /\ det_s' = NoState
               /\ pc' = "det_map"
               /\ UNCHANGED <<state_map, caller, histVars, parseVars>>
    /\ UNCHANGED <<dfaVars, bfsVars, dfsVars>>

\* lines 244-253: the subset the new state stands for
trans_to_of(to, sm) ==
    UNION {IF t \in DOMAIN sm THEN sm[t] ELSE {t} : t \in to}

\* any_target_accepts with `all` in place of `any`
any_target_accepts_all(A, to) == \A target \in to : state_accept(A, target)

\* any_target_accepts that never looks at the targets
any_target_accepts_never(A, to) == FALSE

\* lines 266-274: whether any target accepts
any_target_accepts(A, to) == \E target \in to : state_accept(A, target)

\* map_new_state without the drain of lines 285-300: the non-deterministic
\* transitions stay in place
map_new_state_keep(A, sm, ns, s, c, to, equivalent) ==
    LET trans_to == trans_to_of(to, sm)
        fresh == equivalent = NoState
        newstate == IF fresh THEN add_state_index(A) ELSE equivalent
        A1 == IF fresh THEN add_state(A, any_target_accepts(A, to)) ELSE A
        sm1 == IF fresh THEN MapPut(sm, newstate, trans_to) ELSE sm
        ndtrans == IF s \in DOMAIN A1.transitions
                   THEN {d \in A1.transitions[s] : d[1] = c}
                   ELSE {}
        A3 == create_transition_between(A1, s, newstate, c)
    IN [dfa |-> A3, state_map |-> sm1, new_states |-> MapPut(ns, newstate, ndtrans)]

\* lines 238-306: one turn of the inner for-loop, for the entry (c, to) of
\* state s, with `newstate` the equivalent found at lines 256-261 or NoState
map_new_state(A, sm, ns, s, c, to, equivalent) ==
    LET trans_to == trans_to_of(to, sm)
        fresh == equivalent = NoState
        newstate == IF fresh THEN add_state_index(A) ELSE equivalent
        A1 == IF fresh THEN add_state(A, any_target_accepts(A, to)) ELSE A
        sm1 == IF fresh THEN MapPut(sm, newstate, trans_to) ELSE sm
        has_ts == s \in DOMAIN A1.transitions
        ndtrans == IF has_ts THEN {d \in A1.transitions[s] : d[1] = c} ELSE {}
        A2 == IF has_ts
              THEN [A1 EXCEPT !.transitions[s] = @ \ ndtrans]
              ELSE A1
        A3 == create_transition_between(A2, s, newstate, c)
    IN [dfa |-> A3, state_map |-> sm1, new_states |-> MapPut(ns, newstate, ndtrans)]

\* lines 235-307: one turn of the two nested for-loops.  The outer loop takes
\* the states in any order and walks all symbols of one state before the
\* next state; lines 256-261 stop at the first equal entry of state_map.
DetMapState ==
    /\ pc = "det_map"
    /\ \E s \in DOMAIN non_deterministic :
        /\ det_s \in DOMAIN non_deterministic => s = det_s
        /\ \E c \in DOMAIN non_deterministic[s] :
            LET to == non_deterministic[s][c]
                trans_to == trans_to_of(to, state_map)
                equivalents == {ns \in DOMAIN state_map : state_map[ns] = trans_to}
                by == MapDel(non_deterministic[s], c)
                rest == IF DOMAIN by = {}
                        THEN MapDel(non_deterministic, s)
                        ELSE [non_deterministic EXCEPT ![s] = by]
            IN \E equivalent \in IF equivalents = {} THEN {NoState} ELSE equivalents :
                LET r == map_new_state(Self, state_map, new_states, s, c, to, equivalent)
                IN /\ SetSelf(r.dfa)
                   /\ state_map' = r.state_map
                   /\ new_states' = r.new_states
                   /\ non_deterministic' = rest
                   /\ det_s' = s
                   /\ pc' = IF DOMAIN rest = {} THEN "det_populate" ELSE "det_map"
    /\ UNCHANGED <<caller, turns, bfsVars, dfsVars, histVars, parseVars>>

\* lines 313-331: the candidates for `superstate` among the targets of ts
superstates(ts, sm) ==
    LET ss == UNION {sm[ndt[2]] : ndt \in {x \in ts : x[2] \in DOMAIN sm}}
    IN {ndt[2] : ndt \in {x \in ts : x[2] \in DOMAIN sm /\ ss = sm[x[2]]}}

\* lines 340-349: the transitions of the targets of ts
target_transitions(A, ts) ==
    UNION {IF ndt[2] \in DOMAIN A.transitions THEN A.transitions[ndt[2]] ELSE {} :
           ndt \in ts}

\* lines 311-357: one turn of the for-loop over new_states, for (ns, ts);
\* line 337 indexes the map and aborts when `superstate` has no entry
DetPopulate ==
    /\ pc = "det_populate"
    /\ \E ns \in DOMAIN new_states :
        LET ts == new_states[ns]
            sups == superstates(ts, state_map)
            rest == MapDel(new_states, ns)
            done(trans) ==
                /\ SetSelf(add_transitions_to(Self, ns, trans))
                /\ new_states' = rest
                /\ pc' = IF DOMAIN rest = {} THEN "det_while" ELSE "det_populate"
        IN IF sups = {}
           THEN done(target_transitions(Self, ts))
           ELSE \E superstate \in sups :
                    IF superstate \in DOMAIN transitions
                    THEN done(transitions[superstate])
                    ELSE /\ pc' = "panic"
                         /\ UNCHANGED <<dfaVars, new_states>>
    /\ UNCHANGED <<caller, state_map, non_deterministic, det_s, turns, bfsVars,
                   dfsVars, histVars, parseVars>>

(***************************************************************************)
(* Dfa::get_unreachable_states and Dfa::remove_unreachable_states          *)
(* `unreached` is a sorted Vec without repetitions, kept as a set.         *)
(***************************************************************************)
\* lines 363-370: the locals before the loop
BfsBegin ==
    /\ unreached' = DOMAIN states
    /\ next' = <<initial>>
    /\ pc' = "ru_bfs"
    /\ before_pass' = Self

\* lines 437-438 and 363-370
remove_unreachable_states_enter ==
    /\ BfsBegin
    /\ before' = Self
    /\ UNCHANGED <<dfaVars, caller, detVars, dfsVars, hist, orig, first, callVars, parseVars>>

\* bfs_pushes that enqueues the first neighbour only
bfs_pushes_first(ts, unr) ==
    IF ts # <<>> /\ ts[1][2] \in unr THEN <<ts[1][2]>> ELSE <<>>

\* lines 376-382: what one pop appends to `next`, the transitions of the
\* popped state taken in the order `ts`
bfs_pushes(ts, unr) == SelectSeq([i \in 1..Len(ts) |-> ts[i][2]], LAMBDA d : d \in unr)

\* lines 373-385: one turn of the while-loop
BfsStep ==
    /\ pc = "ru_bfs"
    /\ unreached # {} /\ next # <<>>
    /\ LET cur == Head(next)
       IN /\ IF cur \in DOMAIN transitions
             THEN \E ts \in Perms(transitions[cur]) :
                     next' = Tail(next) \o bfs_pushes(ts, unreached)
             ELSE next' = Tail(next)
          /\ unreached' = unreached \ {cur}
    /\ UNCHANGED <<dfaVars, pc, caller, detVars, dfsVars, histVars, parseVars>>

(***************************************************************************)
(* Dfa::get_dead_states and Dfa::remove_dead_states                        *)
(* `unvisited` and `dead` are sorted Vecs without repetitions, kept as     *)
(* sets; `path` and `stack` are sequences with their top at the end.       *)
(***************************************************************************)
\* lines 391-402: the locals before the loop
DfsBegin(A) ==
    /\ unvisited' = DOMAIN A.states
    /\ dead' = DOMAIN A.states
    /\ path' = <<>>
    /\ stack' = <<<<A.initial, A.initial>>>>
    /\ pc' = "rd_dfs"
    /\ before_pass' = A

\* lines 445-446 and 391-402
remove_dead_states_enter ==
    /\ DfsBegin(Self)
    /\ before' = Self
    /\ UNCHANGED <<dfaVars, caller, detVars, bfsVars, hist, orig, first, callVars, parseVars>>

\* lines 409-412: pop `path` until its last element is stacked_by
RECURSIVE correct_path(_, _)
correct_path(p, stacked_by) ==
    IF p = <<>> \/ p[Len(p)] = stacked_by THEN p
    ELSE correct_path(SubSeq(p, 1, Len(p) - 1), stacked_by)

\* dfs_visit with the test of line 420 always true
RECURSIVE dfs_visit_eager(_, _, _, _)
dfs_visit_eager(A, cur, ts, L) ==
    IF ts = <<>> THEN L
    ELSE LET t == Head(ts)
             L1 == [L EXCEPT !.dead = (@ \ {t[2]}) \ Range(L.path)]
             L2 == IF t[2] \in L1.unvisited
                   THEN [L1 EXCEPT !.unvisited = @ \ {t[2]},
                                   !.stack = Append(@, <<t[2], cur>>)]
                   ELSE L1
         IN dfs_visit_eager(A, cur, Tail(ts), L2)

\* dfs_visit without line 427: a stacked neighbour stays in `unvisited`
RECURSIVE dfs_visit_repush(_, _, _, _)
dfs_visit_repush(A, cur, ts, L) ==
    IF ts = <<>> THEN L
    ELSE LET t == Head(ts)
             alive == state_accept(A, t[2]) \/ t[2] \notin L.dead
             L1 == IF alive
                   THEN [L EXCEPT !.dead = (@ \ {t[2]}) \ Range(L.path)]
                   ELSE L
             L2 == IF t[2] \in L1.unvisited
                   THEN [L1 EXCEPT !.stack = Append(@, <<t[2], cur>>)]
                   ELSE L1
         IN dfs_visit_repush(A, cur, Tail(ts), L2)

\* lines 417-430: the for-loop over the transitions of `cur`, taken in the
\* order `ts`, from the locals in L
RECURSIVE dfs_visit(_, _, _, _)
dfs_visit(A, cur, ts, L) ==
    IF ts = <<>> THEN L
    ELSE LET t == Head(ts)
             alive == state_accept(A, t[2]) \/ t[2] \notin L.dead
             L1 == IF alive
                   THEN [L EXCEPT !.dead = (@ \ {t[2]}) \ Range(L.path)]
                   ELSE L
             L2 == IF t[2] \in L1.unvisited
                   THEN [L1 EXCEPT !.unvisited = @ \ {t[2]},
                                   !.stack = Append(@, <<t[2], cur>>)]
                   ELSE L1
         IN dfs_visit(A, cur, Tail(ts), L2)

\* lines 405-432: one turn of the while-loop
DfsStep ==
    /\ pc = "rd_dfs"
    /\ dead # {} /\ stack # <<>>
    /\ LET top == stack[Len(stack)]
           cur == top[1]
           L == [unvisited |-> unvisited, dead |-> dead,
                 path |-> Append(correct_path(path, top[2]), cur),
                 stack |-> SubSeq(stack, 1, Len(stack) - 1)]
           set(R) == /\ unvisited' = R.unvisited
                     /\ dead' = R.dead
                     /\ path' = R.path
                     /\ stack' = R.stack
       IN IF cur \in DOMAIN transitions
          THEN \E ts \in Perms(transitions[cur]) : set(dfs_visit(Self, cur, ts, L))
          ELSE set(L)
    /\ UNCHANGED <<dfaVars, pc, caller, detVars, bfsVars, histVars, parseVars>>

\* lines 434 and 446-450: the loop is left, every state of `dead` is removed
RemoveDeadReturn ==
    /\ pc = "rd_dfs"
    /\ dead = {} \/ stack = <<>>
    /\ SetSelf(remove_states(Self, SortedSeq(dead)))
    /\ unvisited' = {}
    /\ dead' = {}
    /\ path' = <<>>
    /\ stack' = <<>>
    /\ Return(IF caller = "minimize" THEN "minimize" ELSE "remove_dead_states")
    /\ UNCHANGED <<detVars, bfsVars>>

\* lines 387 and 438-442: the loop is left, every state of `unreached` is
\* removed; inside minimize() (line 455) remove_dead_states follows at once
RemoveUnreachableReturn ==
    /\ pc = "ru_bfs"
    /\ unreached = {} \/ next = <<>>
    /\ LET A == remove_states(Self, SortedSeq(unreached))
       IN /\ SetSelf(A)
          /\ unreached' = {}
          /\ next' = <<>>
          /\ IF caller = "minimize"
             THEN /\ DfsBegin(A)
                  /\ UNCHANGED <<caller, hist, before, orig, first, callVars, parseVars>>
             ELSE /\ Return("remove_unreachable_states")
                  /\ UNCHANGED dfsVars
    /\ UNCHANGED detVars

\* Dfa::minimize, lines 453-454: remove_unreachable_states is entered
minimize_enter ==
    /\ BfsBegin
    /\ caller' = "minimize"
    /\ before' = Self
    /\ UNCHANGED <<dfaVars, detVars, dfsVars, hist, orig, first, callVars, parseVars>>

(***************************************************************************)
(* Dfa::insert_error_state                                                 *)
(***************************************************************************)
\* completed without the difference of line 471: every symbol gets an edge
completed_all(tr, state, al, error_state) ==
    LET have == IF state \in DOMAIN tr THEN tr[state] ELSE {}
    IN have \cup {<<ch, error_state>> : ch \in al}

\* completed that fills in only the states without any transition
completed_if_empty(tr, state, al, error_state) ==
    LET have == IF state \in DOMAIN tr THEN tr[state] ELSE {}
    IN IF have = {} THEN {<<ch, error_state>> : ch \in al} ELSE have

\* lines 466-477: the transitions of `state` after its turn of the loop
completed(tr, state, al, error_state) ==
    LET have == IF state \in DOMAIN tr THEN tr[state] ELSE {}
        transitions_by == {x[1] : x \in have}
        missing == al \ transitions_by
    IN have \cup {<<ch, error_state>> : ch \in missing}

\* lines 458-479; each turn of the loop touches the entry of its own state
\* only, so the turns are independent of the order of `states`
insert_error_state(A) ==
    LET error_state == add_state_index(A)
        A1 == add_state(A, TRUE)
        sts == DOMAIN A1.states
    IN [A1 EXCEPT !.transitions =
            [s \in (DOMAIN A.transitions) \cup sts |->
                IF s \in sts
                THEN completed(A.transitions, s, A.alphabet, error_state)
                ELSE A.transitions[s]]]

insert_error_state_call ==
    /\ SetSelf(insert_error_state(Self))
    /\ before' = Self
    /\ before_pass' = Self
    /\ pc' = "idle"
    /\ hist' = Append(hist, "insert_error_state")
    /\ UNCHANGED <<caller, detVars, bfsVars, dfsVars, orig, first, callVars, parseVars>>

(***************************************************************************)
(* The library's passes, called on an automaton in any order.              *)
(***************************************************************************)
DeterminizeCall == MayCall /\ determinize_enter
RemoveUnreachableCall == MayCall /\ remove_unreachable_states_enter
RemoveDeadCall == MayCall /\ remove_dead_states_enter
MinimizeCall == MayCall /\ minimize_enter
InsertErrorState == MayCall /\ insert_error_state_call

PassStep ==
    \/ DetWhile
    \/ DetMapState
    \/ DetPopulate
    \/ BfsStep
    \/ RemoveUnreachableReturn
    \/ DfsStep
    \/ RemoveDeadReturn

Next ==
    \/ DeterminizeCall
    \/ RemoveUnreachableCall
    \/ RemoveDeadCall
    \/ MinimizeCall
    \/ InsertErrorState
    \/ PassStep

Spec == Init /\ [][Next]_vars

(***************************************************************************)
(* main, src/src/main.rs lines 273-300: the passes in the order the front  *)
(* end runs them on the parsed automaton, with a dump directory (one pass  *)
(* at a time) or without (minimize()).                                     *)
(***************************************************************************)
Running == pc = "idle" /\ caller = ""

MainDeterminize == Running /\ hist = <<>> /\ determinize_enter

MainRemoveUnreachable ==
    Running /\ hist = <<"determinize">> /\ remove_unreachable_states_enter

MainRemoveDead ==
    /\ Running
    /\ hist = <<"determinize", "remove_unreachable_states">>
    /\ remove_dead_states_enter

MainMinimize == Running /\ hist = <<"determinize">> /\ minimize_enter

MainInsertErrorState ==
    /\ Running
    /\ \/ hist = <<"determinize", "minimize">>
       \/ hist = <<"determinize", "remove_unreachable_states", "remove_dead_states">>
    /\ insert_error_state_call

MainNext ==
    \/ MainDeterminize
    \/ MainRemoveUnreachable
    \/ MainRemoveDead
    \/ MainMinimize
    \/ MainInsertErrorState
    \/ PassStep

SpecMain == Init /\ [][MainNext]_vars

(***************************************************************************)
(* One core pass run twice on one input automaton: each run takes the      *)
(* entries of the unordered collections in an order of its own (the hash   *)
(* seed of the run), and the two results are kept side by side.            *)
(***************************************************************************)
CorePasses == {"determinize", "remove_unreachable_states", "remove_dead_states"}

\* the first run is over: its result is kept and the second run is handed
\* the input the first one had
Rerun ==
    /\ Running
    /\ Len(hist) = 1
    /\ hist[1] \in CorePasses
    /\ first = NoDfa
    /\ first' = Self
    /\ SetSelf(orig)
    /\ UNCHANGED <<pc, caller, detVars, bfsVars, dfsVars, hist, before,
                   before_pass, orig, callVars, parseVars>>

SecondRun == Running /\ Len(hist) = 1 /\ first # NoDfa

SecondDeterminize ==
    SecondRun /\ hist = <<"determinize">> /\ determinize_enter

SecondRemoveUnreachable ==
    /\ SecondRun
    /\ hist = <<"remove_unreachable_states">>
    /\ remove_unreachable_states_enter

SecondRemoveDead ==
    SecondRun /\ hist = <<"remove_dead_states">> /\ remove_dead_states_enter

TwiceNext ==
    \/ DeterminizeCall
    \/ RemoveUnreachableCall
    \/ RemoveDeadCall
    \/ Rerun
    \/ SecondDeterminize
    \/ SecondRemoveUnreachable
    \/ SecondRemoveDead
    \/ PassStep

SpecTwice == Init /\ [][TwiceNext]_vars

(***************************************************************************)
(* determinize run twice on automata in which two synthesized states of    *)
(* the first turn are non-deterministic in the second: state 0 goes on a   *)
(* to {1, 4} and on b to {2, 3, 4}, state 1 goes on a to {5, 6}, and 2, 3, *)
(* 4 go on a to 5, 6, 7.  The accept flags of 5, 6, 7 and the edges that   *)
(* leave them vary.                                                        *)
(***************************************************************************)
OrderStates == 8

OrderEdges ==
    {<<0, "a", 1>>, <<0, "a", 4>>, <<0, "b", 2>>, <<0, "b", 3>>, <<0, "b", 4>>,
     <<1, "a", 5>>, <<1, "a", 6>>, <<2, "a", 5>>, <<3, "a", 6>>, <<4, "a", 7>>}

OrderOptionalEdges ==
    {<<5, "a", 5>>, <<6, "a", 6>>, <<6, "b", 7>>, <<7, "b", 5>>, <<7, "b", 7>>}

InitOrder ==
    /\ \E E \in SUBSET OrderOptionalEdges :
        \E acc \in {f \in [0..(OrderStates - 1) -> BOOLEAN] :
                        \A x \in 0..4 : ~f[x]} :
            LET A == InputAutomaton(OrderStates, acc, OrderEdges \cup E)
            IN /\ states = A.states
               /\ initial = A.initial
               /\ current = A.current
               /\ transitions = A.transitions
               /\ alphabet = A.alphabet
               /\ orig = A
               /\ before = A
               /\ before_pass = A
               /\ allocated = SortedSeq(DOMAIN A.states)
    /\ pc = "idle"
    /\ caller = ""
    /\ state_map = EmptyMap
    /\ non_deterministic = EmptyMap
    /\ det_s = NoState
    /\ new_states = EmptyMap
    /\ turns = 0
    /\ unreached = {}
    /\ next = <<>>
    /\ unvisited = {}
    /\ dead = {}
    /\ path = <<>>
    /\ stack = <<>>
    /\ hist = <<>>
    /\ args = NoArgs
    /\ ret = Unit
    /\ first = NoDfa
    /\ ParseIdle

OrderNext ==
    \/ DeterminizeCall
    \/ Rerun
    \/ SecondDeterminize
    \/ DetWhile
    \/ DetMapState
    \/ DetPopulate

SpecOrder == InitOrder /\ [][OrderNext]_vars

(***************************************************************************)
(* The container API of Dfa, called by a client in any order on the         *)
(* automaton of new(): at most MaxCalls calls, state-id arguments in        *)
(* 0..MaxId (ids of states and ids of no state).                            *)
(***************************************************************************)
MaxCalls == 3
MaxId == 2
Ids == 0..MaxId

\* Dfa::set_initial
set_initial(A, i) == [A EXCEPT !.initial = i]

\* Dfa::rewind
rewind(A) == [A EXCEPT !.current = A.initial]

\* Dfa::set_current: the test of line 98
set_current_ok(A, t) == t <= Cardinality(DOMAIN A.states)

\* Dfa::set_current: the automaton afterwards
set_current(A, t) ==
    IF set_current_ok(A, t) THEN [A EXCEPT !.current = t] ELSE A

\* Dfa::set_current: the Result
set_current_result(A, t) ==
    Ret(IF set_current_ok(A, t) THEN "Ok" ELSE "Err", NoState, FALSE, FALSE, {})

\* Dfa::set_current_state_accept: HashMap::insert at the key `current`
set_current_state_accept(A, accept) ==
    [A EXCEPT !.states = MapPut(A.states, A.current, accept)]

\* Dfa::create_transition
create_transition(A, by, dest) ==
    create_transition_between(A, A.current, dest, by)

\* create_transition_and_walk that walks first: the edge leaves `dest`
create_transition_and_walk_first(A, by, dest) ==
    [create_transition_between(A, dest, dest, by) EXCEPT !.current = dest]

\* Dfa::create_transition_and_walk
create_transition_and_walk(A, by, dest) ==
    [create_transition(A, by, dest) EXCEPT !.current = dest]

\* Dfa::remove_state: the Option returned; the inner Option is the entry of
\* `index` in `transitions` as it is after the retain loop of lines 159-161
remove_state_result(A, index) ==
    LET retained == [s \in DOMAIN A.transitions |->
                        {x \in A.transitions[s] : x[2] # index}]
    IN IF index \in DOMAIN A.states
       THEN IF index \in DOMAIN retained
            THEN Ret("Some", NoState, A.states[index], TRUE, retained[index])
            ELSE Ret("Some", NoState, A.states[index], FALSE, {})
       ELSE Ret("None", NoState, FALSE, FALSE, {})

\* the program holds the automaton of new() and nothing else
InitNew ==
    /\ states = new.states
    /\ initial = new.initial
    /\ current = new.current
    /\ transitions = new.transitions
    /\ alphabet = new.alphabet
    /\ orig = new
    /\ before = new
    /\ before_pass = new
    /\ allocated = <<0>>
    /\ pc = "idle"
    /\ caller = ""
    /\ state_map = EmptyMap
    /\ non_deterministic = EmptyMap
    /\ det_s = NoState
    /\ new_states = EmptyMap
    /\ turns = 0
    /\ unreached = {}
    /\ next = <<>>
    /\ unvisited = {}
    /\ dead = {}
    /\ path = <<>>
    /\ stack = <<>>
    /\ hist = <<>>
    /\ args = NoArgs
    /\ ret = Unit
    /\ first = NoDfa

InitApi == InitNew /\ ParseIdle

\* the client may call: nothing is running and it has calls left
ApiMayCall == pc = "idle" /\ caller = "" /\ Len(hist) < MaxCalls

\* a container call `name` with arguments `a` returns `r` and leaves `A`
ApiReturn(name, a, r, A) ==
    /\ SetSelf(A)
    /\ pc' = "idle"
    /\ hist' = Append(hist, name)
    /\ args' = a
    /\ ret' = r
    /\ allocated' = IF name = "add_state" THEN Append(allocated, r.id)
                    ELSE allocated
    /\ before' = Self
    /\ before_pass' = Self
    /\ UNCHANGED <<caller, detVars, bfsVars, dfsVars, orig, first, parseVars>>

AddState(state) ==
    /\ ApiMayCall
    /\ ApiReturn("add_state", Args(NoState, "", NoState, state),
                 Ret("id", add_state_index(Self), FALSE, FALSE, {}),
                 add_state(Self, state))

SetInitial(i) ==
    /\ ApiMayCall
    /\ ApiReturn("set_initial", Args(i, "", NoState, FALSE), Unit,
                 set_initial(Self, i))

Rewind == ApiMayCall /\ ApiReturn("rewind", NoArgs, Unit, rewind(Self))

SetCurrent(t) ==
    /\ ApiMayCall
    /\ ApiReturn("set_current", Args(t, "", NoState, FALSE),
                 set_current_result(Self, t), set_current(Self, t))

SetCurrentStateAccept(accept) ==
    /\ ApiMayCall
    /\ ApiReturn("set_current_state_accept", Args(NoState, "", NoState, accept),
                 Unit, set_current_state_accept(Self, accept))

AddTransitionTo(state, by, dest) ==
    /\ ApiMayCall
    /\ ApiReturn("add_transition_to", Args(state, by, dest, FALSE), Unit,
                 add_transition_to(Self, state, <<by, dest>>))

CreateTransitionBetween(origin, dest, by) ==
    /\ ApiMayCall
    /\ ApiReturn("create_transition_between", Args(origin, by, dest, FALSE),
                 Unit, create_transition_between(Self, origin, dest, by))

\* the source of the edge is the cursor: `id` records it
CreateTransition(by, dest) ==
    /\ ApiMayCall
    /\ ApiReturn("create_transition", Args(current, by, dest, FALSE), Unit,
                 create_transition(Self, by, dest))

CreateTransitionAndWalk(by, dest) ==
    /\ ApiMayCall
    /\ ApiReturn("create_transition_and_walk", Args(current, by, dest, FALSE),
                 Unit, create_transition_and_walk(Self, by, dest))

RemoveState(index) ==
    /\ ApiMayCall
    /\ ApiReturn("remove_state", Args(index, "", NoState, FALSE),
                 remove_state_result(Self, index), remove_state(Self, index))

ApiInsertErrorState == ApiMayCall /\ insert_error_state_call

\* one call of the client, with any state-id arguments
ApiNext ==
    \/ \E state \in BOOLEAN : AddState(state)
    \/ \E i \in Ids : SetInitial(i)
    \/ Rewind
    \/ \E t \in Ids : SetCurrent(t)
    \/ \E accept \in BOOLEAN : SetCurrentStateAccept(accept)
    \/ \E state, dest \in Ids : \E by \in Sigma :
        AddTransitionTo(state, by, dest)
    \/ \E origin, dest \in Ids : \E by \in Sigma :
        CreateTransitionBetween(origin, dest, by)
    \/ \E dest \in Ids : \E by \in Sigma : CreateTransition(by, dest)
    \/ \E dest \in Ids : \E by \in Sigma : CreateTransitionAndWalk(by, dest)
    \/ \E index \in Ids : RemoveState(index)
    \/ ApiInsertErrorState

SpecApi == InitApi /\ [][ApiNext]_vars

\* one call of a client that passes ids of existing states only
ValidNext ==
    \/ \E state \in BOOLEAN : AddState(state)
    \/ \E i \in DOMAIN states : SetInitial(i)
    \/ Rewind
    \/ \E t \in DOMAIN states : SetCurrent(t)
    \/ \E accept \in BOOLEAN : SetCurrentStateAccept(accept)
    \/ \E state, dest \in DOMAIN states : \E by \in Sigma :
        AddTransitionTo(state, by, dest)
    \/ \E origin, dest \in DOMAIN states : \E by \in Sigma :
        CreateTransitionBetween(origin, dest, by)
    \/ \E dest \in DOMAIN states : \E by \in Sigma : CreateTransition(by, dest)
    \/ \E dest \in DOMAIN states : \E by \in Sigma :
        CreateTransitionAndWalk(by, dest)
    \/ \E index \in DOMAIN states : RemoveState(index)
    \/ ApiInsertErrorState

SpecValid == InitApi /\ [][ValidNext]_vars

\* ndt_of(&index): the automaton is left as it is; a panic ends the program
NdtOf(index) ==
    /\ ApiMayCall
    /\ hist' = Append(hist, "ndt_of")
    /\ args' = Args(index, "", NoState, FALSE)
    /\ ret' = ndt_of_result(Self, index)
    /\ pc' = IF ret'.kind = "panic" THEN "panic" ELSE "idle"
    /\ before' = Self
    /\ before_pass' = Self
    /\ UNCHANGED <<dfaVars, caller, detVars, bfsVars, dfsVars, orig, first,
                   allocated, parseVars>>

\* a client that passes ids of existing states only and also asks for the
\* non-deterministic transitions of a state
QueryNext ==
    \/ ValidNext
    \/ \E index \in DOMAIN states : NdtOf(index)

SpecQuery == InitApi /\ [][QueryNext]_vars

(***************************************************************************)
(* The library crate, src/dfa/src/lexer.rs: the same container, with its   *)
(* own add_state and remove_state.  The client is the one of its tests:    *)
(* add_state, create_transition_and_walk, rewind, and remove_state.        *)
(***************************************************************************)
\* lexer.rs Dfa::add_state: the index the new state gets
lexer_add_state_index(A) == Cardinality(DOMAIN A.states)

\* lexer.rs Dfa::add_state: HashMap::insert at that index
lexer_add_state(A, state) ==
    [A EXCEPT !.states = MapPut(A.states, lexer_add_state_index(A), state)]

\* lexer.rs Dfa::remove_state: the automaton afterwards
lexer_remove_state(A, index) ==
    IF index \in DOMAIN A.states
    THEN [A EXCEPT !.states = MapDel(A.states, index),
                   !.transitions =
                        IF index \in DOMAIN A.transitions
                        THEN MapDel(A.transitions, index)
                        ELSE A.transitions]
    ELSE A

\* lexer.rs Dfa::remove_state: the Option returned
lexer_remove_state_result(A, index) ==
    IF index \in DOMAIN A.states
    THEN IF index \in DOMAIN A.transitions
         THEN Ret("Some", NoState, A.states[index], TRUE, A.transitions[index])
         ELSE Ret("Some", NoState, A.states[index], FALSE, {})
    ELSE Ret("None", NoState, FALSE, FALSE, {})

LexerAddState(state) ==
    /\ ApiMayCall
    /\ ApiReturn("add_state", Args(NoState, "", NoState, state),
                 Ret("id", lexer_add_state_index(Self), FALSE, FALSE, {}),
                 lexer_add_state(Self, state))

LexerRemoveState(index) ==
    /\ ApiMayCall
    /\ ApiReturn("remove_state", Args(index, "", NoState, FALSE),
                 lexer_remove_state_result(Self, index),
                 lexer_remove_state(Self, index))

LexerNext ==
    \/ \E state \in BOOLEAN : LexerAddState(state)
    \/ \E index \in Ids : LexerRemoveState(index)
    \/ \E dest \in Ids : \E by \in Sigma : CreateTransitionAndWalk(by, dest)
    \/ Rewind

SpecLexer == InitApi /\ [][LexerNext]_vars

(***************************************************************************)
(* parse_grammar, src/src/main.rs lines 49-191, one character at a time.   *)
(***************************************************************************)
\* the locals of parse_grammar that a character can change; `panicked` is
\* set when the `expect` of line 101 aborts the program
Parser(A, rd, temp, gm) ==
    [dfa |-> A, reading |-> rd, temp_transition |-> temp,
     grammar_mapper |-> gm, panicked |-> FALSE]

\* map_nonterminal that gives c a new state at every occurrence
map_nonterminal_rebind(P, c) ==
    IF c = INITIAL_STATE_CHAR
    THEN P
    ELSE [P EXCEPT !.dfa = add_state(P.dfa, FALSE),
                   !.grammar_mapper = MapPut(@, c, add_state_index(P.dfa))]

\* map_nonterminal that binds c to the id after the one add_state returned
map_nonterminal_next(P, c) ==
    IF c = INITIAL_STATE_CHAR \/ c \in DOMAIN P.grammar_mapper
    THEN P
    ELSE [P EXCEPT !.dfa = add_state(P.dfa, FALSE),
                   !.grammar_mapper = MapPut(@, c, add_state_index(P.dfa) + 1)]

\* lines 87-92 and 146-151: the non-terminal c is given a state if it has none
map_nonterminal(P, c) ==
    IF c = INITIAL_STATE_CHAR \/ c \in DOMAIN P.grammar_mapper
    THEN P
    ELSE [P EXCEPT !.dfa = add_state(P.dfa, FALSE),
                   !.grammar_mapper = MapPut(@, c, add_state_index(P.dfa))]

\* lines 84-95 and 143-154: `index` and `target`, once c is mapped
nonterminal_index(P, c) ==
    IF c = INITIAL_STATE_CHAR THEN P.dfa.initial ELSE P.grammar_mapper[c]

\* take_temp_transition that forgets the terminal: no state, no edge
take_temp_transition_drop(P) == [P EXCEPT !.temp_transition = NoChar]

\* lines 113-117 and 173-177: a pending terminal gets a new accepting state
take_temp_transition(P) ==
    IF P.temp_transition = NoChar
    THEN P
    ELSE LET empty_state == add_state_index(P.dfa)
         IN [P EXCEPT
                !.dfa = create_transition(add_state(P.dfa, TRUE),
                                          P.temp_transition, empty_state),
                !.temp_transition = NoChar]

\* read_normal with the new state created accepting
read_normal_accepting(P, c) ==
    IF c = "<"
    THEN [P EXCEPT !.reading = "StateDef"]
    ELSE LET state_index == add_state_index(P.dfa)
         IN [P EXCEPT !.dfa = create_transition_and_walk(
                                add_state(P.dfa, TRUE), c, state_index)]

\* lines 71-78: Input::Normal, c is not a space
read_normal(P, c) ==
    IF c = "<"
    THEN [P EXCEPT !.reading = "StateDef"]
    ELSE LET state_index == add_state_index(P.dfa)
         IN [P EXCEPT !.dfa = create_transition_and_walk(
                                add_state(P.dfa, FALSE), c, state_index)]

\* lines 79-104: Input::StateDef, c is not a space
read_state_def(P, c) ==
    IF c = "<" THEN P
    ELSE IF c = ">" THEN [P EXCEPT !.reading = "StateTransitions"]
    ELSE LET P1 == map_nonterminal(P, c)
             index == nonterminal_index(P1, c)
         IN IF c = INITIAL_STATE_CHAR
            THEN [P1 EXCEPT !.dfa = rewind(P1.dfa)]
            ELSE IF set_current_ok(P1.dfa, index)
                 THEN [P1 EXCEPT !.dfa = set_current(P1.dfa, index)]
                 ELSE [P1 EXCEPT !.panicked = TRUE]

\* lines 106-132: Input::StateTransitions, any c
read_state_transitions(P, c) ==
    IF c = "<" THEN [P EXCEPT !.reading = "StateTransitionTarget_false"]
    ELSE IF c \in {"|", " "} THEN take_temp_transition(P)
    ELSE IF c \in {":", "="} THEN P
    ELSE IF P.temp_transition = NoChar
         THEN [P EXCEPT !.temp_transition = c]
         ELSE P

\* lines 133-166: Input::StateTransitionTarget(had_state), c is not a space
read_state_transition_target(P, c, had_state) ==
    IF c = ">"
    THEN LET P1 == [P EXCEPT !.reading = "StateTransitions"]
         IN IF P.temp_transition = NoChar /\ ~had_state
            THEN [P1 EXCEPT !.dfa = set_current_state_accept(P.dfa, TRUE)]
            ELSE P1
    ELSE LET P1 == map_nonterminal(P, c)
             target == nonterminal_index(P1, c)
             P2 == IF P1.temp_transition # NoChar
                   THEN [P1 EXCEPT
                            !.dfa = create_transition(P1.dfa,
                                        P1.temp_transition, target),
                            !.temp_transition = NoChar]
                   ELSE P1
         IN [P2 EXCEPT !.reading = "StateTransitionTarget_true"]

\* lines 69-168: the match on `reading` for the character c
parse_char(P, c) ==
    IF P.reading = "Normal" /\ c # " " THEN read_normal(P, c)
    ELSE IF P.reading = "StateDef" /\ c # " " THEN read_state_def(P, c)
    ELSE IF P.reading = "StateTransitions" THEN read_state_transitions(P, c)
    ELSE IF P.reading = "StateTransitionTarget_false" /\ c # " "
         THEN read_state_transition_target(P, c, FALSE)
    ELSE IF P.reading = "StateTransitionTarget_true" /\ c # " "
         THEN read_state_transition_target(P, c, TRUE)
    ELSE P

\* end_of_line that leaves the cursor where the line ended
end_of_line_stay(P) ==
    LET P1 == take_temp_transition(P)
    IN IF P1.reading = "Normal"
       THEN [P1 EXCEPT !.dfa = set_current_state_accept(P1.dfa, TRUE)]
       ELSE [P1 EXCEPT !.reading = "StateDef"]

\* lines 171-186: after the last character of a line
end_of_line(P) ==
    LET P1 == take_temp_transition(P)
    IN IF P1.reading = "Normal"
       THEN [P1 EXCEPT !.dfa = rewind(set_current_state_accept(P1.dfa, TRUE))]
       ELSE [P1 EXCEPT !.reading = "StateDef"]

(***************************************************************************)
(* The grammar files the program is run on: at most MaxLines lines, each   *)
(* a literal token, a production written with or without blanks, or the    *)
(* boundary between two files.                                             *)
(***************************************************************************)
MaxLines == 3

\* an alternative of a production: `a<Y>`, `a`, or `<>`
Alt(kind, by, nt) == [kind |-> kind, by |-> by, nt |-> nt]
To(by, nt) == Alt("target", by, nt)
Bare(by) == Alt("terminal", by, NoChar)
Epsilon == Alt("epsilon", NoChar, NoChar)

Literal(text) == Item("literal", text, NoChar, <<>>)
Production(lhs, alts) == Item("production", <<>>, lhs, alts)
FileBreak == Item("file", <<>>, NoChar, <<>>)

GrammarItems ==
    { Literal(<<"i", "f">>),
      Literal(<<"e", "l", "s", "e">>),
      Literal(<<"a", " ", "b">>),
      Literal(<<>>),
      Production("S", <<To("a", "A"), To("a", "B")>>),
      Production("A", <<To("b", "A"), Epsilon>>),
      Production("B", <<To("c", "B"), Epsilon>>),
      Production("A", <<Bare("a"), To("b", "S")>>),
      Production("S", <<To("a", "B"), Bare("b")>>),
      Production("A", <<To("a", "C"), To("a", "D")>>),
      Production("B", <<To("a", "S")>>),
      FileBreak }

GrammarInputs == UNION {[1..n -> GrammarItems] : n \in 0..MaxLines}

\* "blanks": `<X> ::= a<A> | b`; "tight": `<X>::=a<A>|b`
Styles == {"blanks", "tight"}

alt_text(alt) ==
    IF alt.kind = "target" THEN <<alt.by, "<", alt.nt, ">">>
    ELSE IF alt.kind = "terminal" THEN <<alt.by>>
    ELSE <<"<", ">">>

RECURSIVE alts_text(_, _)
alts_text(alts, style) ==
    IF alts = <<>> THEN <<>>
    ELSE IF Len(alts) = 1 THEN alt_text(alts[1])
    ELSE alt_text(alts[1])
         \o (IF style = "blanks" THEN <<" ", "|", " ">> ELSE <<"|">>)
         \o alts_text(Tail(alts), style)

\* the characters of a line
line_text(item, style) ==
    IF item.kind = "production"
    THEN <<"<", item.lhs, ">">>
         \o (IF style = "blanks" THEN <<" ", ":", ":", "=", " ">>
             ELSE <<":", ":", "=">>)
         \o alts_text(item.alts, style)
    ELSE item.text

\* main calls parse_grammar on the files: lines 50-51 and 57-58
InitParse ==
    /\ InitNew
    /\ lines \in GrammarInputs
    /\ chars = <<>>
    /\ reading = "Normal"
    /\ temp_transition = NoChar
    /\ grammar_mapper = EmptyMap
    /\ line_start = LineStart(NoItem, "Normal", EmptyMap)
    /\ files = lines

\* main, line 273: parse_grammar is called on the files
ParseGrammarCall ==
    /\ Running
    /\ hist = <<>>
    /\ pc' = "parse_line"
    /\ UNCHANGED <<dfaVars, caller, detVars, bfsVars, dfsVars, histVars,
                   parseVars>>

ParserSelf == Parser(Self, reading, temp_transition, grammar_mapper)

SetParser(P) ==
    /\ SetSelf(P.dfa)
    /\ reading' = P.reading
    /\ temp_transition' = P.temp_transition
    /\ grammar_mapper' = P.grammar_mapper

\* line 63: the next line of the file is taken
ReadLine ==
    /\ pc = "parse_line"
    /\ lines # <<>>
    /\ Head(lines).kind # "file"
    /\ \E style \in Styles : chars' = line_text(Head(lines), style)
    /\ lines' = Tail(lines)
    /\ line_start' = LineStart(Head(lines), reading, grammar_mapper)
    /\ before' = Self
    /\ pc' = "parse_char"
    /\ UNCHANGED <<dfaVars, caller, detVars, bfsVars, dfsVars, hist,
                   before_pass, orig, first, callVars, reading,
                   temp_transition, grammar_mapper, files>>

\* lines 54-61: the file is at its end and the next file is opened
NextFile ==
    /\ pc = "parse_line"
    /\ lines # <<>>
    /\ Head(lines).kind = "file"
    /\ lines' = Tail(lines)
    /\ temp_transition' = NoChar
    /\ grammar_mapper' = EmptyMap
    /\ line_start' = LineStart(Head(lines), reading, EmptyMap)
    /\ before' = Self
    /\ UNCHANGED <<dfaVars, pc, caller, detVars, bfsVars, dfsVars, hist,
                   before_pass, orig, first, callVars, chars, reading,
                   files>>

\* lines 68-169: one turn of the loop over the characters of the line
ParseChar ==
    /\ pc = "parse_char"
    /\ chars # <<>>
    /\ LET P == parse_char(ParserSelf, Head(chars))
       IN /\ SetParser(P)
          /\ pc' = IF P.panicked THEN "panic" ELSE "parse_char"
    /\ chars' = Tail(chars)
    /\ UNCHANGED <<caller, detVars, bfsVars, dfsVars, histVars, lines,
                   line_start, files>>

\* lines 171-186: the line is at its end
EndOfLine ==
    /\ pc = "parse_char"
    /\ chars = <<>>
    /\ SetParser(end_of_line(ParserSelf))
    /\ pc' = "parse_line"
    /\ UNCHANGED <<caller, detVars, bfsVars, dfsVars, histVars, lines, chars,
                   line_start, files>>

\* line 190: all files are read and the automaton is returned
ParseReturn ==
    /\ pc = "parse_line"
    /\ lines = <<>>
    /\ Return("parse_grammar")
    /\ UNCHANGED <<dfaVars, detVars, bfsVars, dfsVars>>

\* main, lines 296-299: the passes on the parsed automaton
ParsedDeterminize ==
    Running /\ hist = <<"parse_grammar">> /\ determinize_enter

ParsedMinimize ==
    Running /\ hist = <<"parse_grammar", "determinize">> /\ minimize_enter

ParsedInsertErrorState ==
    /\ Running
    /\ hist = <<"parse_grammar", "determinize", "minimize">>
    /\ insert_error_state_call

ParseNext ==
    \/ ParseGrammarCall
    \/ ReadLine
    \/ NextFile
    \/ ParseChar
    \/ EndOfLine
    \/ ParseReturn
    \/ ParsedDeterminize
    \/ ParsedMinimize
    \/ ParsedInsertErrorState
    \/ PassStep

SpecParse == InitParse /\ [][ParseNext]_vars

(***************************************************************************)
(* Acceptance.  A string is accepted iff some run from `initial` ends in   *)
(* an accepting state; two automata are compared on the pairs of state     *)
(* sets that one string can reach in both.                                 *)
(***************************************************************************)
Step(A, S, a) ==
    {t[2] : t \in {x \in UNION {A.transitions[s] : s \in S \cap DOMAIN A.transitions} :
                     x[1] = a}}

Accepting(A, S) == \E s \in S : state_accept(A, s)

RECURSIVE ReachablePairs(_, _, _, _)
ReachablePairs(A, B, todo, seen) ==
    IF todo = {} THEN seen
    ELSE LET p == CHOOSE x \in todo : TRUE
             succ == {<<Step(A, p[1], a), Step(B, p[2], a)>> : a \in Sigma}
             seen1 == seen \cup {p}
         IN ReachablePairs(A, B, (todo \cup succ) \ seen1, seen1)

SameLanguage(A, B) ==
    \A p \in ReachablePairs(A, B, {<<{A.initial}, {B.initial}>>}, {}) :
        Accepting(A, p[1]) = Accepting(B, p[2])

Returned(name) == pc = "idle" /\ caller = "" /\ hist # <<>> /\ hist[Len(hist)] = name

\* C1: when determinize() has run to completion, the automaton accepts
\* exactly the strings the automaton it was called on accepts.
C1_DeterminizePreservesLanguage ==
    Returned("determinize") => SameLanguage(before, Self)

\* the destinations of state s on symbol a
Dests(A, s, a) ==
    IF s \in DOMAIN A.transitions
    THEN {t[2] : t \in {x \in A.transitions[s] : x[1] = a}}
    ELSE {}

Deterministic(A) ==
    \A s \in (DOMAIN A.states) \cup (DOMAIN A.transitions) :
        \A a \in Sigma : Cardinality(Dests(A, s, a)) <= 1

\* C2: whenever determinize() returns, every state has at most one
\* destination per symbol and non_determinist_states() returns None.
C2_DeterminizeYieldsDeterministic ==
    Returned("determinize") =>
        /\ Deterministic(Self)
        /\ DOMAIN non_determinist_states(Self) = {}

\* determinize() has returned on an automaton that was not deterministic
C2_Witness ==
    /\ Returned("determinize")
    /\ ~Deterministic(before)
    /\ Cardinality(DOMAIN states) > Cardinality(DOMAIN before.states)

\* C3: determinize() terminates: its outer loop is left after finitely many
\* turns, whatever the iteration orders.  Every turn of the loop is counted
\* and each inner for-loop consumes one entry of a finite map per step, so
\* the loop is left iff the count stays below the cap MaxTurns, at which
\* the model would stop the loop.
C3_DeterminizeTerminates == turns < MaxTurns

\* determinize() has returned after three turns of its outer loop
C3_Witness == Returned("determinize") /\ turns = 3

(***************************************************************************)
(* determinize() alone, with every step that can be taken eventually       *)
(* taken: the thread that runs the pass is never stopped.                  *)
(***************************************************************************)
DetNext ==
    \/ DeterminizeCall
    \/ DetWhile
    \/ DetMapState
    \/ DetPopulate

SpecDet == Init /\ [][DetNext]_vars /\ WF_vars(DetNext)

InDeterminize == pc \in {"det_while", "det_map", "det_populate"}

\* the same as a liveness property of SpecDet
DeterminizeEventuallyLeft == InDeterminize ~> ~InDeterminize

\* C4: minimize() preserves the accepted language.
C4_MinimizePreservesLanguage ==
    Returned("minimize") => SameLanguage(before, Self)

\* the states with a path of edges (the empty one included) to an accepting
\* state: the least fixed point from the accepting states
RECURSIVE ProductiveFrom(_, _)
ProductiveFrom(A, P) ==
    LET more == {s \in (DOMAIN A.states) \ P :
                    \E t \in (IF s \in DOMAIN A.transitions THEN A.transitions[s] ELSE {}) :
                        t[2] \in P}
    IN IF more = {} THEN P ELSE ProductiveFrom(A, P \cup more)

Productive(A) == ProductiveFrom(A, {s \in DOMAIN A.states : A.states[s]})

\* the states reached from `initial` by following edges
RECURSIVE ReachableFrom(_, _)
ReachableFrom(A, R) ==
    LET more == {t[2] : t \in UNION {A.transitions[s] : s \in R \cap DOMAIN A.transitions}} \ R
    IN IF more = {} THEN R ELSE ReachableFrom(A, R \cup more)

Reachable(A) == ReachableFrom(A, {A.initial})

Total(A) ==
    \A s \in DOMAIN A.states : \A a \in A.alphabet : Dests(A, s, a) # {}

\* C5: the pipeline determinize -> minimize -> insert_error_state of the
\* front end preserves the language of the parsed automaton and leaves a
\* deterministic automaton that is total on its alphabet.
C5_PipelinePreservesLanguage ==
    (Returned("insert_error_state") /\ Len(hist) = 3) =>
        /\ SameLanguage(orig, Self)
        /\ Deterministic(Self)
        /\ Total(Self)

\* C6: remove_dead_states() removes exactly the dead states: the states
\* left are those of the least fixed point from the accepting states.
C6_RemoveDeadExact ==
    Returned("remove_dead_states") =>
        DOMAIN states = Productive(before_pass)

\* C7: after remove_dead_states() every state still in the automaton has
\* a path of remaining edges to a remaining accepting state.
C7_RemainingStatesProductive ==
    (Returned("remove_dead_states") \/ Returned("minimize")) =>
        DOMAIN states \subseteq Productive(Self)

\* remove_dead_states() has removed a state and kept a non-accepting one
C7_Witness ==
    /\ Returned("remove_dead_states")
    /\ DOMAIN states # DOMAIN before.states
    /\ \E s \in DOMAIN states : ~states[s]

\* C8: get_unreachable_states() returns exactly the states that cannot be
\* reached from `initial`, and after remove_unreachable_states() every
\* remaining state is reachable from `initial`.
C8_UnreachableExact ==
    /\ (pc = "ru_bfs" /\ (unreached = {} \/ next = <<>>)) =>
            unreached = (DOMAIN states) \ Reachable(Self)
    /\ Returned("remove_unreachable_states") =>
            /\ DOMAIN states = (DOMAIN before.states) \cap Reachable(before)
            /\ DOMAIN states \subseteq Reachable(Self)

\* remove_unreachable_states() has removed a state that had an edge into a
\* state it kept, other than `initial`
C8_Witness ==
    /\ Returned("remove_unreachable_states")
    /\ \E u \in (DOMAIN before.states) \ DOMAIN states :
        \E s \in (DOMAIN states) \ {initial} : \E a \in Sigma :
            s \in Dests(before, u, a)

\* the edges of A as triples <<source, symbol, destination>>
Edges(A) ==
    UNION {{<<s, t[1], t[2]>> : t \in A.transitions[s]} : s \in DOMAIN A.transitions}

\* C9: after insert_error_state() every state, the new sink E included, has
\* an outgoing edge on every symbol of the alphabet, and every edge the call
\* added goes to E from a state that had no edge on that symbol before.
C9_ErrorStateCompletes ==
    Returned("insert_error_state") =>
        LET E == add_state_index(before)
        IN /\ E \in DOMAIN states
           /\ E \notin DOMAIN before.states
           /\ Total(Self)
           /\ \A e \in Edges(Self) \ Edges(before) :
                /\ e[3] = E
                /\ Dests(before, e[1], e[2]) = {}

\* insert_error_state() has returned on an automaton in which a state had
\* an edge on one symbol of the alphabet and none on another
C9_Witness ==
    /\ Returned("insert_error_state")
    /\ \E s \in DOMAIN before.states : \E a, b \in before.alphabet :
        /\ Dests(before, s, a) # {}
        /\ Dests(before, s, b) = {}

ExactlyOneDestination(A) ==
    \A s \in DOMAIN A.states : \A a \in A.alphabet :
        Cardinality(Dests(A, s, a)) = 1

\* C10 as stated: after insert_error_state(), for every state s and every
\* symbol a of the alphabet there is exactly one destination.
C10_ExactlyOneDestination ==
    Returned("insert_error_state") => ExactlyOneDestination(Self)

\* C10 as amended: when no state had two destinations on one symbol before
\* the call, after insert_error_state() every state has exactly one
\* destination on every symbol of the alphabet.
C10_ExactlyOneIfDeterministic ==
    (Returned("insert_error_state") /\ Deterministic(before)) =>
        ExactlyOneDestination(Self)

\* insert_error_state() has returned on a deterministic automaton with two
\* symbols, an edge kept and an edge added
C10_Witness ==
    /\ Returned("insert_error_state")
    /\ Deterministic(before)
    /\ Cardinality(alphabet) = 2
    /\ Edges(before) # {}
    /\ \E e \in Edges(Self) \ Edges(before) : e[1] \in DOMAIN before.states

\* C11: the sink that insert_error_state() adds is not accepting, and after
\* the call it has an edge to itself on every symbol of the alphabet.
C11_SinkNotAccepting ==
    Returned("insert_error_state") =>
        LET E == add_state_index(before)
        IN /\ E \in DOMAIN states
           /\ ~states[E]
           /\ \A a \in alphabet : E \in Dests(Self, E, a)

\* the last two calls that returned were both calls of `name`
ReturnedTwice(name) ==
    /\ Returned(name)
    /\ Len(hist) >= 2
    /\ hist[Len(hist) - 1] = name

\* C12: a second insert_error_state() right after a first creates no state:
\* the states after the second call are the states after the first.
C12_SecondErrorStateAddsNone ==
    ReturnedTwice("insert_error_state") =>
        DOMAIN states = DOMAIN before.states

\* C13: over any calls of add_state and remove_state, every id add_state
\* returns is greater than every id handed out before it, those of states
\* removed since included; no id is handed out twice.
C13_IdsStrictlyIncrease ==
    \A i, j \in 1..Len(allocated) : i < j => allocated[i] < allocated[j]

\* C14: set_current(id) returns an error exactly when id is not a key of
\* `states`, and then leaves `current` as it was; when id is a key it
\* returns Ok and `current` is id.
C14_SetCurrentChecksKey ==
    Returned("set_current") =>
        LET id == args.id
        IN /\ (ret.kind = "Err") <=> (id \notin DOMAIN before.states)
           /\ (ret.kind = "Err") => (current = before.current)
           /\ (id \in DOMAIN before.states) =>
                (ret.kind = "Ok" /\ current = id)

\* the edges leaving state s
Outgoing(A, s) == IF s \in DOMAIN A.transitions THEN A.transitions[s] ELSE {}

\* C15: remove_state(id) returns the accept flag and the outgoing edges of
\* id when id is a state and None otherwise; after the call no edge goes to
\* id, and id has no entry in `states` and no outgoing edge.
C15_RemoveStateContract ==
    Returned("remove_state") =>
        LET id == args.id
        IN /\ IF id \in DOMAIN before.states
              THEN /\ ret.kind = "Some"
                   /\ ret.accept = before.states[id]
                   /\ ret.edges = Outgoing(before, id)
              ELSE ret.kind = "None"
           /\ \A e \in Edges(Self) : e[3] # id
           /\ id \notin DOMAIN states
           /\ Outgoing(Self, id) = {}

\* C16: whatever public methods the client calls on the automaton of
\* new(), `initial` is a key of `states`.
C16_InitialIsAState == initial \in DOMAIN states

\* C17: when every state id the client passes names an existing state, the
\* source and the destination of every edge are keys of `states`.
C17_EdgesBetweenStates ==
    \A e \in Edges(Self) : e[1] \in DOMAIN states /\ e[3] \in DOMAIN states

\* C18: whatever public methods the client calls on the automaton of
\* new(), removal of states included, `alphabet` is the set of the symbols
\* that label an edge of the automaton.
C18_AlphabetIsEdgeSymbols == alphabet = {e[2] : e \in Edges(Self)}

\* C19: the automaton of new() has exactly one state, id 0, not accepting,
\* no edge, an empty alphabet, and initial = current = 0.
C19_NewAutomaton ==
    (hist = <<>> /\ orig = Self) =>
        /\ DOMAIN states = {0}
        /\ ~states[0]
        /\ transitions = EmptyMap
        /\ alphabet = {}
        /\ initial = 0
        /\ current = 0

\* the client holds the automaton of new() and has called nothing yet
C19_Witness == hist = <<>> /\ orig = Self /\ pc = "idle" /\ 0 \in DOMAIN states

\* the methods that add an edge
EdgeAdding ==
    {"add_transition_to", "create_transition_between", "create_transition",
     "create_transition_and_walk"}

\* the last call that returned added the edge args.id -args.by-> args.dest
ReturnedEdgeAdding ==
    pc = "idle" /\ caller = "" /\ hist # <<>> /\ hist[Len(hist)] \in EdgeAdding

\* C20: the edges leaving a state are a set of (symbol, destination) pairs:
\* adding an edge that is there changes neither the edges nor the alphabet,
\* adding an edge on a symbol that already leads elsewhere keeps the old
\* edges beside the new one, and the symbol of every added edge is in the
\* alphabet afterwards.
C20_EdgesFormASet ==
    ReturnedEdgeAdding =>
        LET s == args.id
            e == <<args.by, args.dest>>
        IN /\ e \in Outgoing(before, s) =>
                /\ transitions = before.transitions
                /\ alphabet = before.alphabet
           /\ Outgoing(Self, s) = Outgoing(before, s) \cup {e}
           /\ \A d \in Dests(before, s, args.by) : d \in Dests(Self, s, args.by)
           /\ args.dest \in Dests(Self, s, args.by)
           /\ args.by \in alphabet

\* an edge was added on a symbol that already led from the same state to
\* another destination
C20_Witness ==
    /\ ReturnedEdgeAdding
    /\ \E d \in Dests(before, args.id, args.by) : d # args.dest
    /\ Cardinality(Dests(Self, args.id, args.by)) = 2

\* the edges of A with the edge s -by-> d added
WithEdge(A, s, by, d) == Edges(A) \cup {<<s, by, d>>}

\* C21: create_transition_and_walk(sym, dst) adds the edge (sym, dst) to
\* the state that was `current` before the call and then sets `current` to
\* dst, adding and removing no state; rewind() sets `current` to `initial`
\* and changes nothing else.
C21_WalkAndRewind ==
    /\ Returned("create_transition_and_walk") =>
        /\ Edges(Self) = WithEdge(before, before.current, args.by, args.dest)
        /\ current = args.dest
        /\ states = before.states
        /\ initial = before.initial
    /\ Returned("rewind") =>
        /\ current = before.initial
        /\ Self = [before EXCEPT !.current = before.initial]

\* create_transition_and_walk has added a new edge and moved the cursor to
\* another state
C21_Witness ==
    /\ Returned("create_transition_and_walk")
    /\ args.dest # before.current
    /\ <<before.current, args.by, args.dest>> \notin Edges(before)
    /\ Edges(before) # {}

\* C22: in the library crate every add_state makes the states one more:
\* the id it returns was no key of `states` before the call, whatever
\* remove_state calls came earlier.
C22_LexerAddStateAddsOne ==
    Returned("add_state") =>
        /\ ret.id \notin DOMAIN before.states
        /\ Cardinality(DOMAIN states) = Cardinality(DOMAIN before.states) + 1

\* both runs of the pass on the one input have returned
BothReturned == Running /\ Len(hist) = 2 /\ first # NoDfa

\* C23: the language of the automaton a core pass leaves does not depend
\* on the iteration order of the unordered collections: two runs of the
\* pass on one input, each with an order of its own, leave automata that
\* accept the same strings.
C23_LanguageSameInEveryOrder == BothReturned => SameLanguage(first, Self)

\* parse_grammar has read a line of the given kind to its end
LineRead(kind) == pc = "parse_line" /\ line_start.item.kind = kind

NotSpace(c) == c # " "
NonSpace(text) == SelectSeq(text, NotSpace)

\* the automaton is `before` with one new state per character of cs, in a
\* chain of edges that leaves `initial`; only the last state of the chain
\* accepts, and the cursor is on `initial`
ChainAdded(cs) ==
    LET N == (DOMAIN states) \ (DOMAIN before.states)
    IN /\ DOMAIN before.states \subseteq DOMAIN states
       /\ \A s \in DOMAIN before.states : states[s] = before.states[s]
       /\ Cardinality(N) = Len(cs)
       /\ \E q \in Perms(N) :
            /\ Edges(Self) = Edges(before) \cup
                {<<IF i = 1 THEN initial ELSE q[i - 1], cs[i], q[i]>> :
                    i \in 1..Len(cs)}
            /\ \A i \in 1..Len(cs) : states[q[i]] = (i = Len(cs))
       /\ initial = before.initial
       /\ current = initial

\* C24: a literal-token line read in Normal mode adds, for each character
\* that is not a space, one new non-accepting state and an edge on that
\* character from the cursor to it, starting at `initial`; at the end of
\* the line the last state of the chain is marked accepting and the cursor
\* is back on `initial`.
C24_LiteralLineIsAChain ==
    (/\ LineRead("literal")
     /\ line_start.reading = "Normal"
     /\ NonSpace(line_start.item.text) # <<>>) =>
        ChainAdded(NonSpace(line_start.item.text))

\* a literal line with a space in it was read in Normal mode after another
\* literal line
C24_Witness ==
    /\ LineRead("literal")
    /\ line_start.reading = "Normal"
    /\ Len(NonSpace(line_start.item.text)) = 2
    /\ Len(line_start.item.text) = 3
    /\ Edges(before) # {}

\* the states reached from the states S along edges that spell cs
RECURSIVE Walk(_, _, _)
Walk(A, S, cs) ==
    IF cs = <<>> THEN S ELSE Walk(A, Step(A, S, Head(cs)), Tail(cs))

\* C25: a literal-token line that follows a production line is still read
\* as a literal token: when it has been read, the automaton has a chain of
\* edges that spells the characters of the line, and the state at the end
\* of that chain is accepting.
C25_LiteralLineAfterProduction ==
    (/\ LineRead("literal")
     /\ line_start.reading # "Normal"
     /\ NonSpace(line_start.item.text) # <<>>) =>
        Accepting(Self, Walk(Self, DOMAIN states, NonSpace(line_start.item.text)))

\* the next step reads the name of a non-terminal, as the left-hand side of
\* a production or as the target of an alternative
NonTerminalRead ==
    /\ pc = "parse_char"
    /\ chars # <<>>
    /\ Head(chars) \notin {" ", "<", ">"}
    /\ reading \in {"StateDef", "StateTransitionTarget_false",
                    "StateTransitionTarget_true"}

\* the next step opens another file
FileOpened == pc = "parse_line" /\ lines # <<>> /\ Head(lines).kind = "file"

\* C26: while one file is parsed, each non-terminal character other than S
\* is bound to exactly one state id, allocated as a new state at the first
\* occurrence of the character (as a definition or as a target) and used
\* at every later occurrence; S always denotes `initial` and never
\* allocates a state.
C26_NonTerminalBoundOnce ==
    [][/\ ~FileOpened =>
            \A c \in DOMAIN grammar_mapper :
                /\ c \in DOMAIN grammar_mapper'
                /\ grammar_mapper'[c] = grammar_mapper[c]
       /\ INITIAL_STATE_CHAR \notin DOMAIN grammar_mapper'
       /\ NonTerminalRead =>
            LET c == Head(chars)
                id == IF c = INITIAL_STATE_CHAR THEN initial
                      ELSE grammar_mapper'[c]
            IN /\ initial' = initial
               /\ IF c = INITIAL_STATE_CHAR \/ c \in DOMAIN grammar_mapper
                  THEN states' = states /\ grammar_mapper' = grammar_mapper
                  ELSE /\ DOMAIN grammar_mapper' = DOMAIN grammar_mapper \cup {c}
                       /\ id \notin DOMAIN states
                       /\ DOMAIN states' = DOMAIN states \cup {id}
               /\ reading = "StateDef" => current' = id
               /\ reading # "StateDef" =>
                    /\ current' = current
                    /\ Edges(Self)' = Edges(Self) \cup
                         (IF temp_transition = NoChar THEN {}
                          ELSE {<<current, temp_transition, id>>})
      ]_vars

\* the production for A has been read after A had been bound as the target
\* of an alternative, and A has the state it was bound to
C26_Witness ==
    /\ LineRead("production")
    /\ line_start.item.lhs = "A"
    /\ "A" \in DOMAIN line_start.grammar_mapper
    /\ "A" \in DOMAIN grammar_mapper
    /\ grammar_mapper["A"] = line_start.grammar_mapper["A"]
    /\ Edges(before) # Edges(Self)

\* What a production is to add, computed from the production itself: E holds
\* the states, the edges, `initial` and the bindings of the non-terminals.
Grammar(st, ed, ini, gm) ==
    [states |-> st, edges |-> ed, initial |-> ini, grammar_mapper |-> gm]

Fresh(E) == Max(DOMAIN E.states) + 1

Bound(E, c) ==
    IF c = INITIAL_STATE_CHAR \/ c \in DOMAIN E.grammar_mapper
    THEN E
    ELSE [E EXCEPT !.states = MapPut(@, Fresh(E), FALSE),
                   !.grammar_mapper = MapPut(@, c, Fresh(E))]

StateOf(E, c) ==
    IF c = INITIAL_STATE_CHAR THEN E.initial ELSE E.grammar_mapper[c]

\* one alternative of the production for the non-terminal whose state is x
WithAlternative(E, x, alt) ==
    CASE alt.kind = "target" ->
            LET E1 == Bound(E, alt.nt)
            IN [E1 EXCEPT !.edges = @ \cup {<<x, alt.by, StateOf(E1, alt.nt)>>}]
      [] alt.kind = "terminal" ->
            [E EXCEPT !.states = MapPut(@, Fresh(E), TRUE),
                      !.edges = @ \cup {<<x, alt.by, Fresh(E)>>}]
      [] alt.kind = "epsilon" ->
            [E EXCEPT !.states = MapPut(@, x, TRUE)]

RECURSIVE WithAlternatives(_, _, _)
WithAlternatives(E, x, alts) ==
    IF alts = <<>> THEN E
    ELSE WithAlternatives(WithAlternative(E, x, Head(alts)), x, Tail(alts))

WithProduction(E, item) ==
    LET E1 == Bound(E, item.lhs)
    IN WithAlternatives(E1, StateOf(E1, item.lhs), item.alts)

\* the automaton is E up to the ids of the states that `old` does not have
SameUpToNewIds(E, old) ==
    LET N  == (DOMAIN states) \ old
        NE == SortedSeq((DOMAIN E.states) \ old)
    IN /\ Cardinality(N) = Len(NE)
       /\ old \subseteq DOMAIN states
       /\ \E q \in Perms(N) :
            LET r(s) == IF s \in old THEN s
                        ELSE q[CHOOSE i \in 1..Len(NE) : NE[i] = s]
            IN /\ \A s \in DOMAIN E.states : states[r(s)] = E.states[s]
               /\ Edges(Self) = {<<r(e[1]), e[2], r(e[3])>> : e \in E.edges}

\* C27: when a production for X has been read, every alternative a<Y> has
\* added exactly the edge on a from the state of X to the state of Y, every
\* bare terminal a has added a new accepting state and the edge on a from
\* the state of X to it, and <> has marked the state of X accepting and
\* added no edge; nothing else has changed in the states and the edges.
C27_ProductionAddsItsAlternatives ==
    LineRead("production") =>
        SameUpToNewIds(
            WithProduction(Grammar(before.states, Edges(before), before.initial,
                                   line_start.grammar_mapper),
                           line_start.item),
            DOMAIN before.states)

\* a production with a bare terminal and a target has been read after
\* another production
C27_Witness ==
    /\ LineRead("production")
    /\ line_start.reading = "StateDef"
    /\ \E i \in 1..Len(line_start.item.alts) :
            line_start.item.alts[i].kind = "terminal"
    /\ \E i \in 1..Len(line_start.item.alts) :
            line_start.item.alts[i].kind = "target"
    /\ Cardinality(Edges(Self)) >= Cardinality(Edges(before)) + 2

\* the symbols an automaton knows or has edges on
Symbols(A) == A.alphabet \cup {e[2] : e \in Edges(A)}

\* ReachablePairs over the symbols Sig
RECURSIVE ReachablePairsOver(_, _, _, _, _)
ReachablePairsOver(A, B, Sig, todo, seen) ==
    IF todo = {} THEN seen
    ELSE LET p == CHOOSE x \in todo : TRUE
             succ == {<<Step(A, p[1], a), Step(B, p[2], a)>> : a \in Sig}
             seen1 == seen \cup {p}
         IN ReachablePairsOver(A, B, Sig, (todo \cup succ) \ seen1, seen1)

\* A and B accept the same strings over the symbols of both
SameLanguageOver(A, B) ==
    \A p \in ReachablePairsOver(A, B, Symbols(A) \cup Symbols(B),
                                {<<{A.initial}, {B.initial}>>}, {}) :
        Accepting(A, p[1]) = Accepting(B, p[2])

\* main has run parse_grammar, determinize and minimize on the given lines
Minimized(input) ==
    /\ Returned("minimize")
    /\ hist = <<"parse_grammar", "determinize", "minimize">>
    /\ files = input

IfElse == <<Literal(<<"i", "f">>), Literal(<<"e", "l", "s", "e">>)>>

\* the smallest deterministic automaton of the language {if, else}
IfElseLanguage ==
    Dfa([s \in 0..5 |-> s = 5], 0, 0,
        (0 :> {<<"i", 1>>, <<"e", 2>>}) @@ (1 :> {<<"f", 5>>}) @@
        (2 :> {<<"l", 3>>}) @@ (3 :> {<<"s", 4>>}) @@ (4 :> {<<"e", 5>>}),
        {"i", "f", "e", "l", "s"})

\* the states in which the keywords of IfElse end
KeywordEnds ==
    Walk(Self, {initial}, <<"i", "f">>) \cup
    Walk(Self, {initial}, <<"e", "l", "s", "e">>)

\* n states, of which exactly the two end-of-keyword states accept, and the
\* strings accepted are exactly `if` and `else`
IfElseAutomaton(n) ==
    /\ Cardinality(DOMAIN states) = n
    /\ Cardinality(KeywordEnds) = 2
    /\ {s \in DOMAIN states : states[s]} = KeywordEnds
    /\ SameLanguageOver(Self, IfElseLanguage)

\* C28: for the input of the two literal lines `if` and `else`, the
\* automaton after determinize() and minimize() has 6 states, of which
\* exactly the two end-of-keyword states accept, and accepts exactly the
\* strings `if` and `else`.
C28_IfElseSixStates == Minimized(IfElse) => IfElseAutomaton(6)

\* C28, amended: as C28 with 7 states: `initial`, the two states of `if`
\* and the four states of `else`.
C28_IfElseSevenStates == Minimized(IfElse) => IfElseAutomaton(7)

\* the pipeline has run on `if` and `else` and a state accepts
C28_Witness == Minimized(IfElse) /\ \E s \in DOMAIN states : states[s]

\* main has run parse_grammar and determinize on the given lines
Determinized(input) ==
    /\ Returned("determinize")
    /\ hist = <<"parse_grammar", "determinize">>
    /\ files = input

\* S ::= a<A> | a<B>,  A ::= b<A> | <>,  B ::= c<B> | <>
ThreeProductions ==
    <<Production("S", <<To("a", "A"), To("a", "B")>>),
      Production("A", <<To("b", "A"), Epsilon>>),
      Production("B", <<To("c", "B"), Epsilon>>)>>

\* C29: for the grammar S ::= a<A> | a<B>, A ::= b<A> | <>, B ::= c<B> | <>,
\* after determinize() the state of S has exactly one edge on a; it goes to
\* a state that determinize has added for the set {A, B}: it has the edges
\* of A and of B, it accepts, and it has an edge on b to the state of A and
\* an edge on c to the state of B.
C29_SynthesizedStateForAB ==
    Determinized(ThreeProductions) =>
        LET A == grammar_mapper["A"]
            B == grammar_mapper["B"]
        IN /\ Cardinality({e \in Edges(Self) : e[1] = initial /\ e[2] = "a"}) = 1
           /\ \A n \in Dests(Self, initial, "a") :
                /\ n \notin DOMAIN before.states
                /\ transitions[n] = before.transitions[A] \cup before.transitions[B]
                /\ states[n]
                /\ Dests(Self, n, "b") = {A}
                /\ Dests(Self, n, "c") = {B}

\* determinize has run on the three productions and has added a state
C29_Witness ==
    /\ Determinized(ThreeProductions)
    /\ DOMAIN states # DOMAIN before.states
    /\ Cardinality(Dests(before, initial, "a")) = 2

\* ndt_of was the last call, whether it returned or not
NdtOfCalled ==
    /\ pc \in {"idle", "panic"}
    /\ hist # <<>>
    /\ hist[Len(hist)] = "ndt_of"

\* the symbols on which state s has more than one destination
Ambiguous(A, s) ==
    {c \in Symbols(A) : Cardinality(Dests(A, s, c)) > 1}

\* C30: ndt_of(s) returns, for every state s of the automaton, the map from
\* each symbol with more than one destination from s to the set of those
\* destinations; for a state without non-determinism, a state with no
\* outgoing edges recorded at all included, that is the empty map.
C30_NdtOfEveryState ==
    NdtOfCalled =>
        /\ ret.kind = "map"
        /\ ret.edges = UNION {{<<c, d>> : d \in Dests(Self, args.id, c)} :
                                c \in Ambiguous(Self, args.id)}

\* determinize has just called non_determinist_states and got Some(map),
\* held in `non_deterministic`; the automaton is as it was at the call
GotSome == pc = "det_map" /\ det_s = NoState

\* the states with two edges on one symbol to different destinations
AmbiguousStates(A) ==
    {s \in (DOMAIN A.states) \cup (DOMAIN A.transitions) : Ambiguous(A, s) # {}}

\* C31: non_determinist_states() returns None exactly when no state has two
\* edges on the same symbol to different destinations; otherwise it returns
\* a map whose keys are exactly the states that have such a pair, each
\* mapped to the map from its symbols with more than one destination to
\* those destinations.
C31_NonDeterministStates ==
    /\ Returned("determinize") => AmbiguousStates(Self) = {}
    /\ GotSome =>
        /\ AmbiguousStates(Self) # {}
        /\ DOMAIN non_deterministic = AmbiguousStates(Self)
        /\ \A s \in DOMAIN non_deterministic :
            /\ DOMAIN non_deterministic[s] = Ambiguous(Self, s)
            /\ \A c \in DOMAIN non_deterministic[s] :
                non_deterministic[s][c] = Dests(Self, s, c)

\* the call returned a map with one key for an automaton in which another
\* state has edges and no two on the same symbol
C31_Witness ==
    /\ GotSome
    /\ Cardinality(DOMAIN non_deterministic) = 1
    /\ \E s \in DOMAIN transitions :
        s \notin DOMAIN non_deterministic /\ transitions[s] # {}

\* determinize is running
InDeterminizeLoop == pc \in {"det_while", "det_map", "det_populate"}

\* C32: at every point of determinize(), each synthesized state recorded in
\* state_map is accepting iff at least one of the original states in the
\* subset it represents is accepting.
C32_SynthesizedAcceptsIffMemberDoes ==
    InDeterminizeLoop =>
        \A ns \in DOMAIN state_map :
            /\ ns \in DOMAIN states
            /\ states[ns] <=>
                \E t \in state_map[ns] :
                    t \in DOMAIN before.states /\ before.states[t]

\* determinize holds an accepting synthesized state for a subset with a
\* member that does not accept, and a synthesized state that does not accept
C32_Witness ==
    /\ InDeterminizeLoop
    /\ \E ns \in DOMAIN state_map :
        /\ states[ns]
        /\ \E t \in state_map[ns] : ~before.states[t]
    /\ \E ns \in DOMAIN state_map : ~states[ns]

\* main is inside determinize, called on what parse_grammar returned
DeterminizeOfParsed == hist = <<"parse_grammar">>

\* C34: determinize() never aborts: on every automaton whose edges connect
\* existing states, each lookup of a state's outgoing edges made while the
\* synthesized states are populated finds an entry, the lookup of the
\* superstate branch (line 337) included, also when the superstate has no
\* outgoing edges.
C34_DeterminizeNeverAborts == DeterminizeOfParsed => pc # "panic"

\* C33: within determinize(), the order in which the non-deterministic
\* states, their symbols, their destination sets, state_map and new_states
\* are iterated does not change the language of the result: two runs on the
\* same input, each with an order of its own, end with automata that accept
\* the same strings.
C33_DeterminizeSameInEveryOrder ==
    (BothReturned /\ hist = <<"determinize", "determinize">>) =>
        SameLanguage(first, Self)

\* C35: remove_dead_states() never removes an accepting state that is
\* reachable from `initial`; in particular an accepting `initial` is kept,
\* also when it has no outgoing edge or only edges to dead states.
C35_ReachableAcceptingKept ==
    Returned("remove_dead_states") =>
        \A s \in Reachable(before) \cap DOMAIN before.states :
            before.states[s] => s \in DOMAIN states

\* C36: set_current_state_accept(b) changes only the accept flag of an
\* existing state: after any sequence of public operations, a successful
\* set_current and a remove_state of the cursor's state included, the call
\* leaves the set of state ids unchanged.
C36_SetAcceptKeepsStateIds ==
    Returned("set_current_state_accept") => DOMAIN states = DOMAIN before.states

\* parse_grammar has not returned
Parsing == hist = <<>>

\* C37: while parse_grammar reads any input, every set_current call it
\* makes succeeds and names an existing state: the `expect` of line 101
\* never fires and the cursor always points at a state of the automaton.
C37_ParserCursorIsAState ==
    Parsing => (pc # "panic" /\ current \in DOMAIN states)

\* the left-hand side of a production has been read and set_current has
\* moved the cursor to the state of its non-terminal
C37_Witness ==
    /\ Parsing
    /\ pc = "parse_char"
    /\ reading = "StateTransitions"
    /\ line_start.item.lhs \in DOMAIN grammar_mapper
    /\ current = grammar_mapper[line_start.item.lhs]
    /\ current # initial

\* the entries of the BFS queue that are no longer in `unreached`
Stale(q, unr) == Cardinality({i \in 1..Len(q) : q[i] \notin unr})

\* what a turn of the loop of get_dead_states uses up: a push takes a state
\* out of `unvisited`, a pop takes an entry off the stack
DfsRank(unv, st) == 2 * Cardinality(unv) + Len(st)

\* C38: get_unreachable_states() and get_dead_states() terminate on every
\* finite automaton, also with self-loops, cycles and edges back to
\* `initial`.  Every turn of the BFS loop takes a state out of `unreached`
\* or, leaving `unreached` as it is, an entry that is no longer in it out of
\* the queue; every turn of the DFS loop lowers twice the number of
\* unvisited states plus the height of the stack, so a state is pushed at
\* most twice (`initial`) and the loops are left after finitely many turns.
C38_SearchesTerminate ==
    [][/\ (pc = "ru_bfs" /\ pc' = "ru_bfs") =>
            \/ Cardinality(unreached') < Cardinality(unreached)
            \/ /\ unreached' = unreached
               /\ Stale(next', unreached') < Stale(next, unreached)
       /\ (pc = "rd_dfs" /\ pc' = "rd_dfs") =>
            DfsRank(unvisited', stack') < DfsRank(unvisited, stack)
      ]_vars

\* get_dead_states has stacked `initial` a second time, through an edge
\* that leads back to it, and has states yet to pop
C38_Witness ==
    /\ pc = "rd_dfs"
    /\ initial \notin unvisited
    /\ stack # <<>>
    /\ Len(path) >= 2

====
